---- MODULE Spec2Model ----
(***************************************************************************)
(* Model of src/report.py: the population dashboard's load / clean /       *)
(* aggregate pipeline (load_data, clean_population_data, clean_age_data,   *)
(* create_population_pyramid, create_time_series_chart and the page        *)
(* bodies of main).                                                        *)
(*                                                                         *)
(* Strings.  The module is ASCII; the Japanese literals of the source are  *)
(* written one token per character:                                        *)
(*   '合計' = <<"go","kei">>     '計' = <<"kei">>                          *)
(*   '男'   = <<"otoko">>        '女' = <<"onna">>                         *)
(*   '東京都' = <<"to","kyo","to">>  '神奈川県' = <<"ka","na","gawa","ken">>*)
(*   '埼玉県' = <<"sai","tama","ken">> '千葉県' = <<"chi","ba","ken">>      *)
(*   '大阪府' = <<"o","saka","fu">>                                        *)
(*   '東京圏' = <<"to","kyo","ken">> 'その他地域' = <<"so","no","ta","chi","iki">> *)
(* and the column names by their English names (section 6 of the spec):   *)
(*   '都道府県名' = "prefecture_name", '総人口' = "total_population", ...  *)
(*                                                                         *)
(* A raw cell is a sequence of one-character strings.  A numeric cell is a *)
(* record [nan, val]: NaN is [nan |-> TRUE, val |-> 0].                    *)
(* A DataFrame is [none, header, rows]; a row is [label, cells], label     *)
(* being the pandas index label of the row.  None is the frame with        *)
(* none = TRUE.  A dict is a sequence of [key, df] items in insertion      *)
(* order, wrapped with a none flag.                                        *)
(***************************************************************************)
EXTENDS Integers, Sequences, FiniteSets, TLC

VARIABLES files, pc, pop_data, age_data, warnings, pop_cleaned, age_cleaned,
          page, out, err

vars == <<files, pc, pop_data, age_data, warnings, pop_cleaned, age_cleaned,
          page, out, err>>

----------------------------------------------------------------------------
(* Bounds of the model *)

MaxRows == 2

MaxAgeRows == 2

MaxRankRows == 5

MaxRankN == 2

----------------------------------------------------------------------------
(* Literals of the source *)

TOTAL == <<"go", "kei">>

SEX_BOTH == <<"kei">>

SEX_MALE == <<"otoko">>

SEX_FEMALE == <<"onna">>

TOKYO == <<"to", "kyo", "to">>

OSAKA == <<"o", "saka", "fu">>

tokyo_area == {TOKYO, <<"ka", "na", "gawa", "ken">>, <<"sai", "tama", "ken">>,
               <<"chi", "ba", "ken">>}

REGION_TOKYO == <<"to", "kyo", "ken">>

REGION_OTHER == <<"so", "no", "ta", "chi", "iki">>

columns == <<"code", "prefecture_name", "male_population", "female_population",
             "total_population", "households",
             "in_domestic", "in_foreign", "in_total", "births", "other_increase",
             "increase_total",
             "out_domestic", "out_foreign", "out_total", "deaths", "other_decrease",
             "decrease_total",
             "net_change", "net_change_rate", "natural_change",
             "natural_change_rate", "social_change", "social_change_rate">>

numeric_cols == <<"male_population", "female_population", "total_population",
                  "households", "births", "deaths",
                  "net_change", "net_change_rate", "natural_change",
                  "natural_change_rate", "social_change", "social_change_rate">>

Years == <<2022, 2023, 2024>>

Pages == {"main_dashboard", "demographics", "age_composition", "region_comparison"}

TopN == 10

AgeOffset == 4

AgeEnd == 25

age_labels == <<"0-4", "5-9", "10-14", "15-19", "20-24", "25-29", "30-34",
                "35-39", "40-44", "45-49", "50-54", "55-59", "60-64",
                "65-69", "70-74", "75-79", "80-84", "85-89", "90-94",
                "95-99", "100+">>

(* age_groups with the last bracket (100+) left out of the elderly cohort *)
age_groups_short ==
    <<[name |-> "child", indices |-> <<0, 1, 2>>],
      [name |-> "working", indices |-> <<3, 4, 5, 6, 7, 8, 9, 10, 11, 12>>],
      [name |-> "elderly", indices |-> <<13, 14, 15, 16, 17, 18, 19>>]>>

age_groups == <<[name |-> "child", indices |-> <<0, 1, 2>>],
                [name |-> "working", indices |-> <<3, 4, 5, 6, 7, 8, 9, 10, 11, 12>>],
                [name |-> "elderly", indices |-> <<13, 14, 15, 16, 17, 18, 19, 20>>]>>

----------------------------------------------------------------------------
(* Values *)

NaN == [nan |-> TRUE, val |-> 0]

Num(v) == [nan |-> FALSE, val |-> v]

None == [none |-> TRUE, header |-> <<>>, rows |-> <<>>]

Frame(h, r) == [none |-> FALSE, header |-> h, rows |-> r]

NoneDict == [none |-> TRUE, items |-> <<>>]

Dict(items) == [none |-> FALSE, items |-> items]

Min(a, b) == IF a < b THEN a ELSE b

Range(s) == {s[i] : i \in 1..Len(s)}

(* Python slice s[a:b] with 0 <= a, on a sequence *)
Slice(s, a, b) == SubSeq(s, a + 1, Min(b, Len(s)))

Keys(d) == [i \in 1..Len(d.items) |-> d.items[i].key]

HasKey(d, k) == \E i \in 1..Len(d.items) : d.items[i].key = k

Get(d, k) == d.items[CHOOSE i \in 1..Len(d.items) : d.items[i].key = k].df

----------------------------------------------------------------------------
(* str.replace and pd.to_numeric(errors='coerce') *)

Digits == {"0", "1", "2", "3", "4", "5", "6", "7", "8", "9"}

DigitVal(c) ==
    CASE c = "0" -> 0 [] c = "1" -> 1 [] c = "2" -> 2 [] c = "3" -> 3
      [] c = "4" -> 4 [] c = "5" -> 5 [] c = "6" -> 6 [] c = "7" -> 7
      [] c = "8" -> 8 [] c = "9" -> 9

(* s.replace(ch, '') *)
StrReplace(s, ch) == SelectSeq(s, LAMBDA c : c # ch)

RECURSIVE DecimalValue(_)
DecimalValue(s) ==
    IF s = <<>> THEN 0
    ELSE 10 * DecimalValue(SubSeq(s, 1, Len(s) - 1)) + DigitVal(s[Len(s)])

IsDigits(s) == s # <<>> /\ \A i \in 1..Len(s) : s[i] \in Digits

(* pd.to_numeric(..., errors='coerce') on one string of the model's         *)
(* alphabet (digits, sign, comma, space, letters, '/'): an optionally       *)
(* signed run of digits parses, everything else becomes NaN.                *)
to_numeric(s) ==
    IF IsDigits(s) THEN Num(DecimalValue(s))
    ELSE IF Len(s) >= 2 /\ s[1] \in {"-", "+"} /\ IsDigits(Tail(s))
         THEN Num((IF s[1] = "-" THEN -1 ELSE 1) * DecimalValue(Tail(s)))
         ELSE NaN

(* CoerceCell without the removal of the thousands separators *)
CoerceCellKeepCommas(c) == to_numeric(StrReplace(c, " "))

(* astype(str) of a cell: a raw cell is its own string; a numeric cell is   *)
(* never passed here because each column is coerced once.                   *)
CoerceCell(c) == to_numeric(StrReplace(StrReplace(c, ","), " "))

----------------------------------------------------------------------------
(* DataFrame helpers *)

HasCol(df, name) == \E i \in 1..Len(df.header) : df.header[i] = name

(* read_csv makes the header names unique, so the position is unique *)
ColPos(df, name) == CHOOSE i \in 1..Len(df.header) : df.header[i] = name

Cell(df, row, name) == row.cells[ColPos(df, name)]

Labels(rows) == [i \in 1..Len(rows) |-> rows[i].label]

Raise(kind) == [err |-> kind, df |-> None]

Return(df) == [err |-> "none", df |-> df]

----------------------------------------------------------------------------
(* clean_population_data *)

(* pandas' columns setter: the new names must be as many as the columns *)
SetColumns(df, names) ==
    IF Len(names) # Len(df.header) THEN Raise("ValueError")
    ELSE Return([df EXCEPT !.header = names])

(* lines 76-78 *)
RenameColumns(df) ==
    IF Len(df.header) >= Len(columns)
    THEN SetColumns(df, Slice(columns, 0, Len(df.header)))
    ELSE Return(df)

(* DropTotal comparing the wrong column with the sentinel *)
DropTotalWrongColumn(df) ==
    [df EXCEPT !.rows = SelectSeq(df.rows, LAMBDA r : Cell(df, r, "code") # TOTAL)]

(* line 81: df[df['prefecture_name'] != TOTAL] *)
DropTotal(df) ==
    [df EXCEPT !.rows =
        SelectSeq(df.rows, LAMBDA r : Cell(df, r, "prefecture_name") # TOTAL)]

(* lines 88-91: every numeric-designated column that is present is coerced *)
CoerceColumns(df) ==
    [df EXCEPT !.rows =
        [i \in 1..Len(df.rows) |->
            [df.rows[i] EXCEPT !.cells =
                [j \in 1..Len(df.header) |->
                    IF df.header[j] \in Range(numeric_cols)
                    THEN CoerceCell(df.rows[i].cells[j])
                    ELSE df.rows[i].cells[j]]]]]

(* arg is the caller's frame after the call: the columns setter of line 78 *)
(* renames it in place, the filter of line 81 makes a copy.                 *)
clean_population_data(df) ==
    IF df.none THEN [err |-> "none", df |-> None, arg |-> df]
    ELSE LET r == RenameColumns(df) IN
         IF r.err # "none" THEN [err |-> r.err, df |-> None, arg |-> df]
         ELSE IF ~HasCol(r.df, "prefecture_name")
              THEN [err |-> "KeyError", df |-> None, arg |-> r.df]
              ELSE [err |-> "none", df |-> CoerceColumns(DropTotal(r.df)), arg |-> r.df]

----------------------------------------------------------------------------
(* load_data *)

(* pd.read_csv: the parsed frame, or an exception when the file is missing  *)
(* or unreadable                                                            *)
Readable(f) == ~f.missing

read_csv(f) == Frame(f.header, f.rows)

(* LoadAges giving up at the first unreadable year *)
RECURSIVE LoadAgesAbort(_, _)
LoadAgesAbort(fs, i) ==
    IF i > Len(Years) \/ ~Readable(fs.age[Years[i]]) THEN <<>>
    ELSE <<[key |-> Years[i], df |-> read_csv(fs.age[Years[i]])]>> \o LoadAgesAbort(fs, i + 1)

RECURSIVE LoadAges(_, _)
LoadAges(fs, i) ==
    IF i > Len(Years) THEN <<>>
    ELSE (IF Readable(fs.age[Years[i]])
          THEN <<[key |-> Years[i], df |-> read_csv(fs.age[Years[i]])]>>
          ELSE <<>>) \o LoadAges(fs, i + 1)

(* lines 45-63.  warnings: the years for which st.warning was shown;        *)
(* failed: st.error was shown and (None, None) returned.                    *)
load_data(fs) ==
    IF ~Readable(fs.pop)
    THEN [pop |-> None, age |-> NoneDict, warnings |-> {}, failed |-> TRUE]
    ELSE [pop |-> read_csv(fs.pop),
          age |-> Dict(LoadAges(fs, 1)),
          warnings |-> {y \in Range(Years) : ~Readable(fs.age[y])},
          failed |-> FALSE]

----------------------------------------------------------------------------
(* clean_age_data *)

(* lines 107-112: every column from the 4th on is coerced *)
CoerceFrom(df, first) ==
    [df EXCEPT !.rows =
        [i \in 1..Len(df.rows) |->
            [df.rows[i] EXCEPT !.cells =
                [j \in 1..Len(df.header) |->
                    IF j >= first THEN CoerceCell(df.rows[i].cells[j])
                    ELSE df.rows[i].cells[j]]]]]

(* TotalRows selecting on the sex column instead of the prefecture column *)
TotalRowsBySex(df) ==
    [df EXCEPT !.rows =
        SelectSeq(df.rows, LAMBDA r : Len(r.cells) >= 3 /\ r.cells[3] = SEX_BOTH)]

(* line 104: df[df.iloc[:, 1] == TOTAL] *)
TotalRows(df) ==
    [df EXCEPT !.rows = SelectSeq(df.rows, LAMBDA r : r.cells[2] = TOTAL)]

(* lines 99-113 for the items from i on; acc is cleaned_data so far.  *)
(* df.iloc[:, 1] raises IndexError on a frame with a single column.   *)
RECURSIVE CleanAgeFrom(_, _, _)
CleanAgeFrom(items, i, acc) ==
    IF i > Len(items) THEN [err |-> "none", dict |-> Dict(acc)]
    ELSE LET df == items[i].df IN
         IF df.none THEN CleanAgeFrom(items, i + 1, acc)
         ELSE IF Len(df.header) < 2 THEN [err |-> "IndexError", dict |-> NoneDict]
         ELSE LET total_row == TotalRows(df) IN
              IF total_row.rows # <<>>
              THEN CleanAgeFrom(items, i + 1,
                       Append(acc, [key |-> items[i].key,
                                    df |-> CoerceFrom(total_row, 4)]))
              ELSE CleanAgeFrom(items, i + 1, acc)

clean_age_data(d) == CleanAgeFrom(d.items, 1, <<>>)

----------------------------------------------------------------------------
(* create_population_pyramid *)

NoFigure == [none |-> TRUE, labels |-> <<>>, male |-> <<>>, female |-> <<>>]

(* rows of df whose 3rd column is the given sex code *)
SexRows(df, sex) == SelectSeq(df.rows, LAMBDA r : r.cells[3] = sex)

(* lines 125-196.  df.iloc[:, 2] raises IndexError on a frame with fewer   *)
(* than three columns; iloc[0, 4:25] is a slice and never raises.          *)
create_population_pyramid(d, year) ==
    IF ~HasKey(d, year) THEN [err |-> "none", fig |-> NoFigure]
    ELSE LET df == Get(d, year) IN
         IF Len(df.header) < 3 THEN [err |-> "IndexError", fig |-> NoFigure]
         ELSE LET male == SexRows(df, SEX_MALE)
                  female == SexRows(df, SEX_FEMALE)
              IN IF male = <<>> \/ female = <<>>
                 THEN [err |-> "none", fig |-> NoFigure]
                 ELSE [err |-> "none",
                       fig |-> [none |-> FALSE,
                                labels |-> age_labels,
                                male |-> Slice(male[1].cells, AgeOffset, AgeEnd),
                                female |-> Slice(female[1].cells, AgeOffset, AgeEnd)]]

----------------------------------------------------------------------------
(* create_time_series_chart *)

NoSeries == [none |-> TRUE, rows |-> <<>>]

(* lines 222-228: the sum of the group's brackets that exist and are not NaN *)
RECURSIVE GroupTotal(_, _, _)
GroupTotal(cells, indices, i) ==
    IF i > Len(indices) THEN 0
    ELSE (IF indices[i] + AgeOffset < Len(cells) /\ ~cells[indices[i] + AgeOffset + 1].nan
          THEN cells[indices[i] + AgeOffset + 1].val
          ELSE 0) + GroupTotal(cells, indices, i + 1)

RowData(year, cells) ==
    [year |-> year,
     totals |-> [g \in 1..Len(age_groups) |-> GroupTotal(cells, age_groups[g].indices, 1)]]

(* lines 213-230 for the items from i on *)
RECURSIVE SeriesFrom(_, _, _)
SeriesFrom(items, i, acc) ==
    IF i > Len(items) THEN [err |-> "none", rows |-> acc]
    ELSE LET df == items[i].df IN
         IF Len(df.header) < 3 THEN [err |-> "IndexError", rows |-> <<>>]
         ELSE LET total_row == SexRows(df, SEX_BOTH) IN
              IF total_row = <<>> THEN SeriesFrom(items, i + 1, acc)
              ELSE SeriesFrom(items, i + 1,
                              Append(acc, RowData(items[i].key, total_row[1].cells)))

create_time_series_chart(d) ==
    IF d.items = <<>> THEN [err |-> "none", fig |-> NoSeries]
    ELSE LET r == SeriesFrom(d.items, 1, <<>>) IN
         IF r.err # "none" THEN [err |-> r.err, fig |-> NoSeries]
         ELSE IF r.rows = <<>> THEN [err |-> "none", fig |-> NoSeries]
         ELSE [err |-> "none", fig |-> [none |-> FALSE, rows |-> r.rows]]

----------------------------------------------------------------------------
(* DataFrame.nlargest / nsmallest (keep='first') on one column *)

(* SortKey ignoring the direction *)
SortKeyAscending(v, largest) == v.val

SortKey(v, largest) == IF largest THEN 0 - v.val ELSE v.val

(* positions of S ordered by key, equal keys in original order (mergesort) *)
RECURSIVE StableOrder(_, _, _)
StableOrder(vals, S, largest) ==
    IF S = {} THEN <<>>
    ELSE LET p == CHOOSE x \in S : \A y \in S :
                     \/ SortKey(vals[x], largest) < SortKey(vals[y], largest)
                     \/ /\ SortKey(vals[x], largest) = SortKey(vals[y], largest)
                        /\ x <= y
         IN <<p>> \o StableOrder(vals, S \ {p}, largest)

RECURSIVE Ascending(_)
Ascending(S) ==
    IF S = {} THEN <<>>
    ELSE LET p == CHOOSE x \in S : \A y \in S : x <= y
         IN <<p>> \o Ascending(S \ {p})

(* SelectNSeries.compute: the positions selected, in result order.  The   *)
(* NaN rows are set aside and appended, in original order, when fewer     *)
(* than n values are not NaN.                                             *)
SelectN(vals, n, largest) ==
    LET dropped == {i \in 1..Len(vals) : ~vals[i].nan}
        nan_index == Ascending({i \in 1..Len(vals) : vals[i].nan})
    IN IF n <= 0 THEN <<>>
       ELSE IF n >= Len(vals)
            THEN Slice(StableOrder(vals, dropped, largest) \o nan_index, 0, n)
            ELSE LET m == Min(n, Cardinality(dropped))
                 IN Slice(Slice(StableOrder(vals, dropped, largest), 0, m) \o nan_index,
                          0, n)

Column(df, name) == [i \in 1..Len(df.rows) |-> Cell(df, df.rows[i], name)]

Take(df, positions, name) ==
    [i \in 1..Len(positions) |->
        [label |-> df.rows[positions[i]].label,
         value |-> Cell(df, df.rows[positions[i]], name)]]

nlargest(df, n, name) == Take(df, SelectN(Column(df, name), n, TRUE), name)

nsmallest(df, n, name) == Take(df, SelectN(Column(df, name), n, FALSE), name)

----------------------------------------------------------------------------
(* Region grouping (lines 410-421) *)

(* Classify with a third bucket the grouping does not know *)
ClassifyThreeWay(name) ==
    IF name \in tokyo_area THEN REGION_TOKYO
    ELSE IF name = OSAKA THEN <<"kan", "sai">> ELSE REGION_OTHER

(* lambda x: REGION_TOKYO if x in tokyo_area else REGION_OTHER *)
Classify(name) == IF name \in tokyo_area THEN REGION_TOKYO ELSE REGION_OTHER

region_label == "region"

sum_cols == <<"total_population", "net_change", "natural_change", "social_change">>

AddRegion(df) ==
    [df EXCEPT !.header = Append(df.header, region_label),
               !.rows = [i \in 1..Len(df.rows) |->
                            [df.rows[i] EXCEPT !.cells =
                                Append(df.rows[i].cells,
                                       Classify(Cell(df, df.rows[i], "prefecture_name")))]]]

(* Series.sum(): NaN is skipped *)
RECURSIVE SumCells(_)
SumCells(cs) ==
    IF cs = <<>> THEN 0
    ELSE (IF Head(cs).nan THEN 0 ELSE Head(cs).val) + SumCells(Tail(cs))

GroupRows(df, bucket) ==
    [df EXCEPT !.rows = SelectSeq(df.rows, LAMBDA r : Cell(df, r, region_label) = bucket)]

(* groupby(region).agg(sum).reset_index(): one row per bucket that has     *)
(* rows, the buckets in sorted order ('so...' before 'to...')              *)
GroupSums(df) ==
    LET present == SelectSeq(<<REGION_OTHER, REGION_TOKYO>>,
                             LAMBDA b : GroupRows(df, b).rows # <<>>)
    IN [i \in 1..Len(present) |->
          [bucket |-> present[i],
           sums |-> [c \in 1..Len(sum_cols) |->
                        SumCells(Column(GroupRows(df, present[i]), sum_cols[c]))]]]

----------------------------------------------------------------------------
(* Input files of the model *)

Missing == [missing |-> TRUE, header |-> <<>>, rows |-> <<>>]

File(h, r) == [missing |-> FALSE, header |-> h, rows |-> r]

C1234 == <<"1", ",", "2", "3", "4", " ">>

CNA == <<"N", "/", "A">>

CNeg5 == <<"-", "5">>

C7 == <<"7">>

NumCells == <<C1234, CNA, CNeg5, C7>>

CodeCell == <<"0", "1">>

RawNames == <<"c01", "c02", "c03", "c04", "c05", "c06", "c07", "c08", "c09",
              "c10", "c11", "c12", "c13", "c14", "c15", "c16", "c17", "c18",
              "c19", "c20", "c21", "c22", "c23", "c24", "c25", "c26">>

PatternCell(i, k) == NumCells[((i + k) % Len(NumCells)) + 1]

(* A header line that happens to carry the canonical names, or other names *)
RawHeader(w, canon) ==
    IF canon THEN Slice(columns, 0, w) ELSE Slice(RawNames, 0, w)

PopRow(w, name, k, label) ==
    [label |-> label,
     cells |-> [i \in 1..w |-> IF i = 1 THEN CodeCell
                               ELSE IF i = 2 THEN name
                               ELSE PatternCell(i, k)]]

PopFile(w, canon, spec) ==
    File(RawHeader(w, canon),
         [i \in 1..Len(spec) |-> PopRow(w, spec[i].name, spec[i].k, i - 1)])

PopWidths == {1, 5, 24, 25}

PopRowChoices == [name : {TOTAL, TOKYO, OSAKA}, k : {0, 1}]

SeqsUpTo(S, n) == UNION {[1..m -> S] : m \in 0..n}

PopShapes == {sh \in [w : PopWidths, canon : BOOLEAN] : sh.canon => sh.w < Len(columns)}

PopFiles ==
    {PopFile(sh.w, sh.canon, spec) :
        sh \in PopShapes, spec \in SeqsUpTo(PopRowChoices, MaxRows)}

DefaultPop ==
    PopFile(Len(columns), FALSE,
            <<[name |-> TOTAL, k |-> 0], [name |-> TOKYO, k |-> 0],
              [name |-> OSAKA, k |-> 1]>>)

AgeRow(w, pref, sex, label) ==
    [label |-> label,
     cells |-> [i \in 1..w |-> IF i = 1 THEN CodeCell
                               ELSE IF i = 2 THEN pref
                               ELSE IF i = 3 THEN sex
                               ELSE PatternCell(i, label)]]

AgeFile(w, spec) ==
    File(Slice(RawNames, 0, w),
         [i \in 1..Len(spec) |-> AgeRow(w, spec[i].pref, spec[i].sex, i - 1)])

AgeWidths == {1, 2, 10, 25}

AgeRowChoices == [pref : {TOTAL, TOKYO}, sex : {SEX_BOTH, SEX_MALE, SEX_FEMALE}]

AgeFiles ==
    {AgeFile(w, spec) : w \in AgeWidths, spec \in SeqsUpTo(AgeRowChoices, MaxAgeRows)}

DefaultAge ==
    AgeFile(AgeEnd,
            <<[pref |-> TOTAL, sex |-> SEX_BOTH], [pref |-> TOTAL, sex |-> SEX_MALE],
              [pref |-> TOTAL, sex |-> SEX_FEMALE], [pref |-> TOKYO, sex |-> SEX_BOTH]>>)

----------------------------------------------------------------------------
(* State machine of one script run (main) *)

OutInit ==
    [n |-> 0, top |-> <<>>, bottom |-> <<>>,
     year |-> 0, pyramid |-> NoFigure,
     ts |-> NoSeries,
     region_summary |-> <<>>]

Derived ==
    /\ pop_data = None
    /\ age_data = NoneDict
    /\ warnings = {}
    /\ pop_cleaned = None
    /\ age_cleaned = NoneDict
    /\ page = "none"
    /\ out = OutInit
    /\ err = "none"

(* Every combination of missing sources *)
InitAvailability ==
    /\ files \in [pop : {Missing, DefaultPop},
                  age : [Range(Years) -> {Missing, DefaultAge}]]

(* The population file varies *)
InitPopulation ==
    /\ files \in [pop : PopFiles, age : {[y \in Range(Years) |-> DefaultAge]}]

(* One age file varies *)
InitAge ==
    \E y \in Range(Years), f \in AgeFiles :
        files = [pop |-> DefaultPop,
                 age |-> [z \in Range(Years) |-> IF z = y THEN f ELSE DefaultAge]]

Init ==
    /\ pc = "start"
    /\ Derived
    /\ (InitAvailability \/ InitPopulation \/ InitAge)

(* lines 268-273 *)
LoadData ==
    /\ pc = "start"
    /\ LET r == load_data(files) IN
        /\ pop_data' = r.pop
        /\ age_data' = r.age
        /\ warnings' = r.warnings
        /\ pc' = IF r.pop.none THEN "stopped" ELSE "loaded"
    /\ UNCHANGED <<files, pop_cleaned, age_cleaned, page, out, err>>

(* line 276 *)
CleanPopulation ==
    /\ pc = "loaded"
    /\ LET r == clean_population_data(pop_data) IN
        /\ pop_cleaned' = r.df
        /\ pop_data' = r.arg
        /\ err' = r.err
        /\ pc' = IF r.err = "none" THEN "pop_cleaned" ELSE "crashed"
    /\ UNCHANGED <<files, age_data, warnings, age_cleaned, page, out>>

(* line 277 *)
CleanAge ==
    /\ pc = "pop_cleaned"
    /\ LET r == clean_age_data(age_data) IN
        /\ age_cleaned' = r.dict
        /\ err' = r.err
        /\ pc' = IF r.err = "none" THEN "cleaned" ELSE "crashed"
    /\ UNCHANGED <<files, pop_data, age_data, warnings, pop_cleaned, page, out>>

(* lines 282-285: the sidebar selectbox *)
SelectPage ==
    /\ pc = "cleaned"
    /\ \E p \in Pages : page' = p
    /\ pc' = "page"
    /\ UNCHANGED <<files, pop_data, age_data, warnings, pop_cleaned, age_cleaned,
                   out, err>>

HasCols(df, names) == \A c \in names : HasCol(df, c)

(* lines 288-335.  The metrics and the two rankings read columns by name   *)
(* (KeyError when one is absent); the pyramid is drawn for the year picked *)
(* among the keys of age_cleaned.                                          *)
RenderMain ==
    /\ pc = "page" /\ page = "main_dashboard"
    /\ IF ~HasCols(pop_cleaned, {"total_population", "net_change_rate", "natural_change",
                                 "social_change", "prefecture_name", "net_change"})
       THEN /\ err' = "KeyError" /\ pc' = "crashed" /\ out' = out
       ELSE LET ranked == [out EXCEPT
                              !.n = TopN,
                              !.top = nlargest(pop_cleaned, TopN, "net_change_rate"),
                              !.bottom = nsmallest(pop_cleaned, TopN, "net_change_rate")]
            IN IF age_cleaned.items = <<>>
               THEN /\ out' = ranked /\ err' = err /\ pc' = "done"
               ELSE \E year_selection \in Range(Keys(age_cleaned)) :
                      LET r == create_population_pyramid(age_cleaned, year_selection) IN
                        /\ out' = [ranked EXCEPT !.year = year_selection,
                                                 !.pyramid = r.fig]
                        /\ err' = r.err
                        /\ pc' = IF r.err = "none" THEN "done" ELSE "crashed"
    /\ UNCHANGED <<files, pop_data, age_data, warnings, pop_cleaned, age_cleaned, page>>

(* lines 338-383.  Figure has update_xaxes but no update_xaxis: line 369   *)
(* raises AttributeError once the scatter and the first bar chart exist.   *)
RenderDemographics ==
    /\ pc = "page" /\ page = "demographics"
    /\ err' = IF ~HasCols(pop_cleaned, {"natural_change", "social_change",
                                        "prefecture_name"})
              THEN "ValueError"
              ELSE IF ~HasCol(pop_cleaned, "births") THEN "KeyError"
              ELSE "AttributeError"
    /\ pc' = "crashed"
    /\ UNCHANGED <<files, pop_data, age_data, warnings, pop_cleaned, age_cleaned,
                   page, out>>

(* lines 386-402 *)
RenderAge ==
    /\ pc = "page" /\ page = "age_composition"
    /\ IF age_cleaned.items = <<>>
       THEN /\ out' = out /\ err' = err /\ pc' = "done"
       ELSE LET r == create_time_series_chart(age_cleaned) IN
              /\ err' = r.err
              /\ pc' = IF r.err = "none" THEN "done" ELSE "crashed"
              /\ \E selected_year \in Range(Keys(age_cleaned)) :
                    out' = [out EXCEPT !.ts = r.fig,
                                       !.year = IF r.err = "none" THEN selected_year
                                                ELSE @]
    /\ UNCHANGED <<files, pop_data, age_data, warnings, pop_cleaned, age_cleaned, page>>

(* lines 405-445.  The region column is added to pop_cleaned before the    *)
(* grouping, which raises KeyError when a summed column is absent.         *)
RenderRegion ==
    /\ pc = "page" /\ page = "region_comparison"
    /\ pop_cleaned' = AddRegion(pop_cleaned)
    /\ IF ~HasCols(pop_cleaned, Range(sum_cols))
       THEN /\ err' = "KeyError" /\ pc' = "crashed" /\ out' = out
       ELSE /\ out' = [out EXCEPT !.region_summary = GroupSums(AddRegion(pop_cleaned))]
            /\ err' = err
            /\ pc' = "done"
    /\ UNCHANGED <<files, pop_data, age_data, warnings, age_cleaned, page>>

(* nlargest / nsmallest of lines 319 and 324 for any N, on a cleaned table *)
RankTopBottom ==
    /\ pc = "rank"
    /\ \E n \in 1..MaxRankN :
          out' = [out EXCEPT !.n = n,
                             !.top = nlargest(pop_cleaned, n, "net_change_rate"),
                             !.bottom = nsmallest(pop_cleaned, n, "net_change_rate")]
    /\ pc' = "ranked"
    /\ UNCHANGED <<files, pop_data, age_data, warnings, pop_cleaned, age_cleaned,
                   page, err>>

Next ==
    \/ LoadData
    \/ CleanPopulation
    \/ CleanAge
    \/ SelectPage
    \/ RenderMain
    \/ RenderDemographics
    \/ RenderAge
    \/ RenderRegion

Spec == Init /\ [][Next]_vars


----------------------------------------------------------------------------
(* The two rankings as a function of the table and of N *)

RankCells == {<<"1">>, <<"2">>, <<"3">>, CNA}

RankRow(cell, label) ==
    [label |-> label,
     cells |-> [i \in 1..Len(columns) |->
                   IF i = 1 THEN CodeCell
                   ELSE IF i = 2 THEN OSAKA
                   ELSE IF columns[i] = "net_change_rate" THEN cell
                   ELSE PatternCell(i, label)]]

RankFile(spec) ==
    File(Slice(RawNames, 0, Len(columns)),
         [i \in 1..Len(spec) |-> RankRow(spec[i], i - 1)])

InitRank ==
    /\ pc = "rank"
    /\ \E spec \in SeqsUpTo(RankCells, MaxRankRows) :
          /\ files = [pop |-> RankFile(spec), age |-> [y \in Range(Years) |-> Missing]]
          /\ pop_data = clean_population_data(read_csv(RankFile(spec))).arg
          /\ pop_cleaned = clean_population_data(read_csv(RankFile(spec))).df
    /\ age_data = Dict(<<>>)
    /\ warnings = Range(Years)
    /\ age_cleaned = Dict(<<>>)
    /\ page = "main_dashboard"
    /\ out = OutInit
    /\ err = "none"

NextRank == RankTopBottom

SpecRank == InitRank /\ [][NextRank]_vars

----------------------------------------------------------------------------
(* Properties *)

CleanPopulationReturned == pc = "pop_cleaned"

CleanPopulationRaised == pc = "crashed" /\ pop_cleaned.none

(* the row of the raw population file with the given index label *)
RawPopRow(label) == files.pop.rows[label + 1]

(* C1: a table returned by clean_population_data has no row whose          *)
(* prefecture name is the total sentinel, and holds every other row of the *)
(* raw table exactly once, in the original order.                          *)
C1_TotalRowDropped ==
    ~pop_cleaned.none =>
        LET p == ColPos(pop_cleaned, "prefecture_name")
            kept == {k \in 1..Len(files.pop.rows) : files.pop.rows[k].cells[p] # TOTAL}
            n == Len(pop_cleaned.rows)
        IN /\ \A i \in 1..n : pop_cleaned.rows[i].cells[p] # TOTAL
           /\ n = Cardinality(kept)
           /\ \A k \in kept : \E i \in 1..n :
                 /\ pop_cleaned.rows[i].label = files.pop.rows[k].label
                 /\ pop_cleaned.rows[i].cells[p] = files.pop.rows[k].cells[p]
                 /\ pop_cleaned.rows[i].cells[1] = files.pop.rows[k].cells[1]
           /\ \A i, j \in 1..n :
                 i < j => pop_cleaned.rows[i].label < pop_cleaned.rows[j].label

C1_Witness ==
    /\ pc = "pop_cleaned"
    /\ Len(files.pop.rows) = 3
    /\ files.pop.rows[1].cells[2] = TOTAL
    /\ Labels(pop_cleaned.rows) = <<1, 2>>

RECURSIVE Pow10(_)
Pow10(n) == IF n = 0 THEN 1 ELSE 10 * Pow10(n - 1)

RECURSIVE PlaceValues(_, _)
PlaceValues(s, i) ==
    IF i > Len(s) THEN 0
    ELSE DigitVal(s[i]) * Pow10(Len(s) - i) + PlaceValues(s, i + 1)

(* what a raw cell stands for: separators and blanks removed, an optional  *)
(* sign, then digits only; anything else is missing                        *)
Denotes(raw) ==
    LET s == SelectSeq(raw, LAMBDA c : c \notin {",", " "})
        signed == s # <<>> /\ s[1] \in {"-", "+"}
        body == IF signed THEN Tail(s) ELSE s
    IN IF body # <<>> /\ Range(body) \subseteq Digits
       THEN Num((IF signed /\ s[1] = "-" THEN -1 ELSE 1) * PlaceValues(body, 1))
       ELSE NaN

(* C2: in a cleaned population table every cell of a numeric-designated    *)
(* column is the number the raw cell stands for once thousands separators  *)
(* and blanks are removed, or missing when that does not parse ("1,234 "   *)
(* is 1234, "N/A" is missing); an unparsable cell never makes the call     *)
(* raise.                                                                  *)
C2_CoerceOrMissing ==
    /\ ~pop_cleaned.none =>
          \A i \in 1..Len(pop_cleaned.rows), j \in 1..Len(pop_data.header) :
             pop_data.header[j] \in Range(numeric_cols) =>
                LET raw == RawPopRow(pop_cleaned.rows[i].label).cells[j]
                    c == pop_cleaned.rows[i].cells[j]
                IN /\ c = Denotes(raw)
                   /\ raw = C1234 => c = Num(1234)
                   /\ raw = CNA => c = NaN
    /\ (CleanPopulationReturned \/ CleanPopulationRaised) /\ HasCol(pop_data, "prefecture_name")
          => CleanPopulationReturned

C2_Witness ==
    /\ pc = "pop_cleaned"
    /\ \E i \in 1..Len(pop_cleaned.rows) :
          LET raw == RawPopRow(pop_cleaned.rows[i].label) IN
            /\ raw.cells[ColPos(pop_cleaned, "male_population")] = C1234
            /\ Cell(pop_cleaned, pop_cleaned.rows[i], "male_population") = Num(1234)
            /\ raw.cells[ColPos(pop_cleaned, "total_population")] = CNeg5
            /\ Cell(pop_cleaned, pop_cleaned.rows[i], "total_population") = Num(-5)
            /\ raw.cells[ColPos(pop_cleaned, "female_population")] = CNA
            /\ Cell(pop_cleaned, pop_cleaned.rows[i], "female_population") = NaN

(* C3: for every column count of at least two, clean_population_data       *)
(* returns without raising and the table carries the first min(n, 24)      *)
(* canonical names, the columns beyond the 24th dropped.                   *)
C3_PositionalRename ==
    (CleanPopulationReturned \/ CleanPopulationRaised) /\ Len(files.pop.header) >= 2 =>
        LET m == Min(Len(files.pop.header), Len(columns)) IN
          /\ CleanPopulationReturned
          /\ pop_cleaned.header = Slice(columns, 0, m)
          /\ \A i \in 1..Len(pop_cleaned.rows) : Len(pop_cleaned.rows[i].cells) = m

(* C4: when the table that reaches the sentinel filter has no prefecture   *)
(* name column, clean_population_data raises SchemaError to its caller.    *)
C4_SchemaError ==
    (CleanPopulationReturned \/ CleanPopulationRaised)
        /\ ~HasCol(pop_data, "prefecture_name")
    => (CleanPopulationRaised /\ err = "SchemaError")

LoadReturned == pc \in {"loaded", "stopped"}

IsBothSexesTotal(r) == Len(r.cells) >= 3 /\ r.cells[2] = TOTAL /\ r.cells[3] = SEX_BOTH

HasBothSexesTotal(f) == Readable(f) /\ \E k \in 1..Len(f.rows) : IsBothSexesTotal(f.rows[k])

FirstBothSexesTotal(f) ==
    f.rows[CHOOSE k \in 1..Len(f.rows) :
              /\ IsBothSexesTotal(f.rows[k])
              /\ \A j \in 1..(k - 1) : ~IsBothSexesTotal(f.rows[j])]

(* the value of age bracket b (0..20) of a raw row, missing counted as 0 *)
BracketValue(r, b) ==
    IF b + 5 <= Len(r.cells)
    THEN LET c == Denotes(r.cells[b + 5]) IN IF c.nan THEN 0 ELSE c.val
    ELSE 0

RECURSIVE BracketSum(_, _, _)
BracketSum(r, lo, hi) ==
    IF lo > hi THEN 0 ELSE BracketSum(r, lo, hi - 1) + BracketValue(r, hi)

PyramidAttempted == page = "main_dashboard" /\ out.year # 0

HasSexRow(df, sex) ==
    \E k \in 1..Len(df.rows) : Len(df.rows[k].cells) >= 3 /\ df.rows[k].cells[3] = sex

(* C7: create_population_pyramid gives no figure when the year's reduced    *)
(* table lacks the male or the female row, and a figure it gives has 21    *)
(* male and 21 female values, one per age label.                           *)
C7_PyramidAligned ==
    PyramidAttempted /\ pc = "done" =>
        LET df == Get(age_cleaned, out.year)
            both == HasSexRow(df, SEX_MALE) /\ HasSexRow(df, SEX_FEMALE)
        IN /\ ~both => out.pyramid.none
           /\ ~out.pyramid.none =>
                 /\ both
                 /\ Len(out.pyramid.male) = Len(age_labels)
                 /\ Len(out.pyramid.female) = Len(age_labels)

CleanAgeReturned == pc \in {"cleaned", "page", "done"} \/ (pc = "crashed" /\ page # "none")

CleanAgeRaised == pc = "crashed" /\ page = "none" /\ ~pop_cleaned.none

(* positions of the rows of frame df satisfying Keep *)
Positions(df, Keep(_)) == {k \in 1..Len(df.rows) : Keep(df.rows[k])}

(* the reduced table t holds exactly the rows of df at positions sel, in   *)
(* order, the columns from position first on coerced, the others untouched *)
IsReduction(t, df, sel, first) ==
    /\ Len(t.rows) = Cardinality(sel)
    /\ \A i, j \in 1..Len(t.rows) : i < j => t.rows[i].label < t.rows[j].label
    /\ \A i \in 1..Len(t.rows) :
          /\ t.rows[i].label + 1 \in sel
          /\ \A j \in 1..Len(df.header) :
                t.rows[i].cells[j] =
                    IF j >= first THEN Denotes(df.rows[t.rows[i].label + 1].cells[j])
                    ELSE df.rows[t.rows[i].label + 1].cells[j]

RECURSIVE SumFromEnd(_, _)
SumFromEnd(cs, n) ==
    IF n = 0 THEN 0
    ELSE SumFromEnd(cs, n - 1) + (IF cs[n].nan THEN 0 ELSE cs[n].val)

RECURSIVE BucketTotals(_, _, _)
BucketTotals(rs, c, n) ==
    IF n = 0 THEN 0 ELSE BucketTotals(rs, c, n - 1) + rs[n].sums[c]

(* C10: on the region page every row of the cleaned table is in exactly    *)
(* one bucket of the summary (the Tokyo-area bucket for the four mapped    *)
(* names, the default bucket otherwise), and for each summed column the    *)
(* bucket totals add up to the column's total over the whole table,        *)
(* missing values counting as zero.                                        *)
C10_LosslessPartition ==
    pc = "done" /\ page = "region_comparison" =>
        LET df == pop_cleaned
            rs == out.region_summary
        IN /\ \A i \in 1..Len(df.rows) :
                 LET b == Cell(df, df.rows[i], region_label) IN
                   /\ b = (IF Cell(df, df.rows[i], "prefecture_name") \in tokyo_area
                           THEN REGION_TOKYO ELSE REGION_OTHER)
                   /\ Cardinality({k \in 1..Len(rs) : rs[k].bucket = b}) = 1
           /\ \A c \in 1..Len(sum_cols) :
                 BucketTotals(rs, c, Len(rs))
                    = SumFromEnd(Column(df, sum_cols[c]), Len(df.rows))

C10_Witness ==
    /\ pc = "done" /\ page = "region_comparison"
    /\ Len(out.region_summary) = 2
    /\ \E i, j \in 1..Len(pop_cleaned.rows) :
          /\ Cell(pop_cleaned, pop_cleaned.rows[i], "natural_change").nan
          /\ Cell(pop_cleaned, pop_cleaned.rows[j], "natural_change") = Num(-5)
          /\ Cell(pop_cleaned, pop_cleaned.rows[i], region_label)
                # Cell(pop_cleaned, pop_cleaned.rows[j], region_label)

Ranked == pc = "ranked"

RankValues == Column(pop_cleaned, "net_change_rate")

NonMissing == {i \in 1..Len(RankValues) : ~RankValues[i].nan}

NoSharedRow == \A i \in 1..Len(out.top), j \in 1..Len(out.bottom) :
                  out.top[i].label # out.bottom[j].label

(* C9 as stated: for N below half the row count, Top-N and Bottom-N share  *)
(* no row and no Top-N value is below a Bottom-N value, ties and missing   *)
(* values included.                                                        *)
C9_DisjointAlways ==
    Ranked /\ 2 * out.n < Len(pop_cleaned.rows) =>
        /\ NoSharedRow
        /\ \A i \in 1..Len(out.top), j \in 1..Len(out.bottom) :
              /\ ~out.top[i].value.nan
              /\ ~out.bottom[j].value.nan
              /\ out.top[i].value.val >= out.bottom[j].value.val

(* C9 (amended): for N below half the number of rows whose ranking value   *)
(* is not missing, Top-N and Bottom-N hold N rows each, none with a        *)
(* missing value, no Top-N value is below a Bottom-N value, and the two    *)
(* share no row exactly when every Top-N value is strictly above every     *)
(* Bottom-N value (so whenever the values are distinct); when the N-th     *)
(* largest and the N-th smallest value tie, both hold the earliest row     *)
(* with that value.                                                        *)
C9_DisjointUnlessTied ==
    Ranked /\ 2 * out.n < Cardinality(NonMissing) =>
        /\ Len(out.top) = out.n /\ Len(out.bottom) = out.n
        /\ \A i \in 1..out.n : ~out.top[i].value.nan /\ ~out.bottom[i].value.nan
        /\ \A i, j \in 1..out.n : out.top[i].value.val >= out.bottom[j].value.val
        /\ NoSharedRow <=>
              \A i, j \in 1..out.n : out.top[i].value.val > out.bottom[j].value.val

C9_Witness ==
    /\ Ranked /\ out.n = 2 /\ Cardinality(NonMissing) = 5
    /\ RankValues[1] = RankValues[2]
    /\ NoSharedRow
    /\ out.top[1].value.val > out.top[2].value.val

====
